---- MODULE Spec2Model ----
(***************************************************************************)
(* Model of truescrub/highlights.py: the daily highlights digest.          *)
(*                                                                         *)
(* The match store (rounds, maps, players, rating_components,              *)
(* season_skill_history) is read-only state chosen by Init.  Every         *)
(* function of the module is one action; pc is the function about to run   *)
(* and call is the function the caller invoked, so that get_highlights     *)
(* chains the five queries while a direct call of one query runs only that *)
(* query.                                                                  *)
(*                                                                         *)
(* Numbers: timestamps are integer ticks, TicksPerDay ticks to a day.      *)
(* Averages are exact fixed-point numbers with denominator Scale (a        *)
(* multiple of every possible row count), so AVG(x) is stored as           *)
(* Scale * SUM(x) / COUNT(x), which is an integer.                         *)
(***************************************************************************)
EXTENDS Integers, Sequences, FiniteSets, TLC

\* ------------------------------------------------------------------ bounds
NumRounds == 3          \* rounds in the store of a get_highlights run
NumSeasonRounds == 5    \* rounds of the season in the bracketing runs
NumPlayers == 2
NumMaps == 2
NumDays == 2
MaxRows == 3            \* most rows drawn into rating_components / season_skill_history

\* --------------------------------------------------------------- constants
TicksPerDay == 2        \* datetime.timedelta(days=1): midnight and one instant inside the day
NULL == 0               \* SQL NULL in an integer column (identifiers start at 1)
None == [none |-> TRUE] \* Python None where a dict is expected

PlayerIds == 1 .. NumPlayers
MapIds == 1 .. NumMaps
Timestamps == 0 .. (NumDays * TicksPerDay)
Days == {d * TicksPerDay : d \in 0 .. (NumDays - 1)}

SteamName(p) == <<"steam", p>>
MapName(m) == <<"de", m>>

VARIABLES
    rounds,                 \* table rounds: round_id -> [created_at, map_id, mvp]
    maps,                   \* table maps: map_id -> map_name
    players,                \* table players: player_id -> steam_name
    rating_components,      \* table rating_components: set of rows
    season_skill_history,   \* table season_skill_history: set of rows
    coefficients,           \* db.COEFFICIENTS
    call,                   \* the function the caller invoked
    day,                    \* argument day of get_highlights / get_round_range_for_day
    pc,                     \* the function about to run, or "done"
    queries,                \* the store queries issued so far, in order
    round_range,            \* (first_round, last_round)
    rounds_played,
    rating_extremes,        \* (lowest_rating, highest_rating)
    most_mvps,
    skill_change_rows,      \* rows of the bracketing join
    skill_group_changes,    \* the pairs get_skill_changes_between_rounds returns
    most_played_maps,       \* ordered (map_name, round_count) items of the dict
    digest,                 \* the dict get_highlights returns
    outcome                 \* "running", "digest", "StopIteration", "IndexError", "returned"

store == <<rounds, maps, players, rating_components, season_skill_history, coefficients>>
vars == <<rounds, maps, players, rating_components, season_skill_history, coefficients,
          call, day, pc, queries, round_range, rounds_played, rating_extremes,
          most_mvps, skill_change_rows, skill_group_changes, most_played_maps, digest,
          outcome>>

\* ----------------------------------------------------------------- helpers
Min(S) == CHOOSE x \in S : \A y \in S : x <= y
Max(S) == CHOOSE x \in S : \A y \in S : x >= y

RECURSIVE Factorial(_)
Factorial(n) == IF n <= 1 THEN 1 ELSE n * Factorial(n - 1)

RECURSIVE SumOver(_, _)
\* SUM(col) over a set of rows, col given as the function row -> value
SumOver(rows, col) ==
    IF rows = {} THEN 0
    ELSE LET r == CHOOSE x \in rows : TRUE
         IN col[r] + SumOver(rows \ {r}, col)

\* every order in which the store may hand back a set of rows
Orders(S) ==
    {f \in [1 .. Cardinality(S) -> S] : \A i, j \in 1 .. Cardinality(S) : i # j => f[i] # f[j]}

RoundIds == DOMAIN rounds

\* WHERE round_id BETWEEN ? AND ?   (a NULL bound matches nothing)
BetweenStrictRounds(round_id, range) ==
    /\ range[1] # NULL
    /\ range[2] # NULL
    /\ range[1] < round_id
    /\ round_id <= range[2]
BetweenRounds(round_id, range) ==
    /\ range[1] # NULL
    /\ range[2] # NULL
    /\ range[1] <= round_id
    /\ round_id <= range[2]

\* where control goes when a query function returns: on inside get_highlights,
\* back to the caller when the function was called directly
After(next) == IF call = "get_highlights" THEN next ELSE "done"
Returned == IF call = "get_highlights" THEN outcome ELSE "returned"

\* ------------------------------------------------- get_round_range_for_day
\* WHERE created_at BETWEEN ? AND ?
CreatedBetween(created_at, lo, hi) == lo <= created_at /\ created_at <= hi

RoundWindowRows(d) ==
    LET next_day == d + TicksPerDay
    IN {r \in RoundIds : CreatedBetween(rounds[r].created_at, d, next_day)}

GetRoundRangeForDay ==
    /\ pc = "get_round_range_for_day"
    /\ LET rows == RoundWindowRows(day)
       IN /\ round_range' = IF rows = {} THEN <<NULL, NULL>> ELSE <<Min(rows), Max(rows)>>
          /\ rounds_played' = Cardinality(rows)
    /\ queries' = Append(queries, "round_window")
    /\ pc' = After("check_rounds_played")
    /\ outcome' = Returned
    /\ UNCHANGED <<store, call, day, rating_extremes, most_mvps, skill_change_rows,
                   skill_group_changes, most_played_maps, digest>>

\* ------------------------------------------ get_highlights: rounds_played == 0
NoRoundsNegative(n) == n < 0
NoRounds(n) == n = 0

CheckRoundsPlayed ==
    /\ pc = "check_rounds_played"
    /\ IF NoRounds(rounds_played)
       THEN pc' = "done" /\ outcome' = "StopIteration"
       ELSE pc' = "get_rating_extremes_between_rounds" /\ outcome' = outcome
    /\ UNCHANGED <<store, call, day, queries, round_range, rounds_played, rating_extremes,
                   most_mvps, skill_change_rows, skill_group_changes, most_played_maps,
                   digest>>

\* -------------------------------------- get_rating_extremes_between_rounds
Scale == Factorial(NumRounds)

ComponentRows(p, range) ==
    {rc \in rating_components : rc.player_id = p /\ BetweenRounds(rc.round_id, range)}

\* AVG(col) over a non-empty group, times Scale
Avg(rows, col) ==
    (Scale \div Cardinality(rows)) * SumOver(rows, [r \in rows |-> r[col]])

\* CTE components: one row per player with rows in the range
Components(range) ==
    {[player_id |-> p,
      average_kills |-> Avg(ComponentRows(p, range), "kill_rating"),
      average_deaths |-> Avg(ComponentRows(p, range), "death_rating"),
      average_damage |-> Avg(ComponentRows(p, range), "damage_rating"),
      average_kas |-> Avg(ComponentRows(p, range), "kas_rating"),
      rounds_played |-> Cardinality(ComponentRows(p, range))] :
        p \in {rc.player_id : rc \in {x \in rating_components : BetweenRounds(x.round_id, range)}}}

Rating(c) ==
    coefficients[1] * c.average_kills
        + coefficients[2] * c.average_deaths
        + coefficients[3] * c.average_damage
        + coefficients[4] * c.average_kas
        + coefficients[5] * Scale

\* CTE impact_ratings
ImpactRatings(range) == {[rating |-> Rating(c), c |-> c] : c \in Components(range)}

\* players JOIN impact_ratings ON player_id AND rating IN (MIN, MAX), shaped into dicts
RatingExtremeRows(range) ==
    LET irs == ImpactRatings(range)
        ratings == {ir.rating : ir \in irs}
    IN {[player_id |-> ir.c.player_id,
         steam_name |-> players[ir.c.player_id],
         impact_rating |-> ir.rating,
         average_kills |-> ir.c.average_kills,
         average_deaths |-> 0 - ir.c.average_deaths,
         average_damage |-> ir.c.average_damage,
         average_kas |-> ir.c.average_kas,
         rounds_played |-> ir.c.rounds_played] :
            ir \in {x \in irs : /\ x.c.player_id \in DOMAIN players
                                /\ x.rating \in {Min(ratings), Max(ratings)}}}

\* rating_extremes.sort(key=itemgetter('impact_rating')) of rows in any store order
SortedByRatingDescending(rows) ==
    {f \in Orders(rows) :
        \A i, j \in DOMAIN f : i < j => f[i].impact_rating >= f[j].impact_rating}
SortedByRating(rows) ==
    {f \in Orders(rows) :
        \A i, j \in DOMAIN f : i < j => f[i].impact_rating <= f[j].impact_rating}

GetRatingExtremesBetweenRounds ==
    /\ pc = "get_rating_extremes_between_rounds"
    /\ queries' = Append(queries, "rating_extremes")
    /\ LET rows == RatingExtremeRows(round_range)
       IN IF rows = {}
          THEN \* rating_extremes[0] of an empty list
               /\ pc' = "done"
               /\ outcome' = "IndexError"
               /\ rating_extremes' = rating_extremes
          ELSE \E sorted \in SortedByRating(rows) :
               /\ rating_extremes' = <<sorted[1], sorted[Len(sorted)]>>
               /\ pc' = After("get_player_with_most_mvps_between_rounds")
               /\ outcome' = Returned
    /\ UNCHANGED <<store, call, day, round_range, rounds_played, most_mvps,
                   skill_change_rows, skill_group_changes, most_played_maps, digest>>

\* -------------------------------- get_player_with_most_mvps_between_rounds
\* players JOIN rounds ON player_id = rounds.mvp WHERE round_id BETWEEN ? AND ?
\* GROUP BY player_id, steam_name: one row per player named MVP in the range
MvpRows(range) ==
    {row \in {[player_id |-> p,
               steam_name |-> players[p],
               mvps |-> Cardinality({r \in RoundIds : /\ rounds[r].mvp = p
                                                      /\ BetweenRounds(r, range)})] :
                    p \in DOMAIN players} : row.mvps > 0}

\* ORDER BY mvps DESC, first row (execute_one): any row no other row beats
FirstByMvpsAscending(rows) == {row \in rows : \A other \in rows : row.mvps <= other.mvps}
FirstByMvps(rows) == {row \in rows : \A other \in rows : row.mvps >= other.mvps}

GetPlayerWithMostMvpsBetweenRounds ==
    /\ pc = "get_player_with_most_mvps_between_rounds"
    /\ queries' = Append(queries, "most_mvps")
    /\ LET rows == MvpRows(round_range)
       IN IF rows = {}
          THEN \* execute_one raises StopIteration; get_highlights catches it
               /\ most_mvps' = None
               /\ pc' = After("get_skill_changes_between_rounds")
               /\ outcome' = IF call = "get_highlights" THEN outcome ELSE "StopIteration"
          ELSE \E mvp \in FirstByMvps(rows) :
               /\ most_mvps' = mvp
               /\ pc' = After("get_skill_changes_between_rounds")
               /\ outcome' = Returned
    /\ UNCHANGED <<store, call, day, round_range, rounds_played, rating_extremes,
                   skill_change_rows, skill_group_changes, most_played_maps, digest>>

\* ----------------------------------------------------------- models.Player
SkillSigmas == 1
GroupWidth == 2

Mmr(skill_mean, skill_stdev) == skill_mean - SkillSigmas * skill_stdev
SkillGroup(mmr) == mmr \div GroupWidth

Player(player_id, steam_name, skill_mean, skill_stdev, impact_rating) ==
    [player_id |-> player_id,
     steam_name |-> steam_name,
     skill_mean |-> skill_mean,
     skill_stdev |-> skill_stdev,
     impact_rating |-> impact_rating,
     mmr |-> Mmr(skill_mean, skill_stdev),
     skill_group |-> SkillGroup(Mmr(skill_mean, skill_stdev))]

\* ----------------------------------------- get_skill_changes_between_rounds
SnapshotRounds(p) == {ssh.round_id : ssh \in {x \in season_skill_history : x.player_id = p}}

\* SELECT MAX(ssh_before.round_id) ... WHERE ssh_before.round_id <= ?
EarlierRoundStrict(p, first) ==
    LET before == {r \in SnapshotRounds(p) : first # NULL /\ r < first}
    IN IF before = {} THEN NULL ELSE Max(before)
EarlierRound(p, first) ==
    LET before == {r \in SnapshotRounds(p) : first # NULL /\ r <= first}
    IN IF before = {} THEN NULL ELSE Max(before)

\* SELECT MIN(ssh_after.round_id) ... WHERE ssh_after.round_id >= ?
LaterRound(p, last) ==
    LET after == {r \in SnapshotRounds(p) : last # NULL /\ r >= last}
    IN IF after = {} THEN NULL ELSE Min(after)

\* players JOIN season_skill_history earlier_ssh JOIN season_skill_history later_ssh
SkillChangeRows(range) ==
    {[player_id |-> p,
      steam_name |-> players[p],
      earlier_skill_mean |-> e.skill_mean,
      earlier_skill_stdev |-> e.skill_stdev,
      later_skill_mean |-> l.skill_mean,
      later_skill_stdev |-> l.skill_stdev] :
        <<p, e, l>> \in {t \in (DOMAIN players) \X season_skill_history \X season_skill_history :
                            /\ t[2].player_id = t[1]
                            /\ t[2].round_id = EarlierRound(t[1], range[1])
                            /\ t[3].player_id = t[1]
                            /\ t[3].round_id = LaterRound(t[1], range[2])}}

SkillChange(row) ==
    <<Player(row.player_id, row.steam_name, row.earlier_skill_mean, row.earlier_skill_stdev, 0),
      Player(row.player_id, row.steam_name, row.later_skill_mean, row.later_skill_stdev, 0)>>

\* skill_changes.sort(key=lambda change: -change[1].mmr) of rows in any store order
SortedByLaterMmr(changes) ==
    {f \in Orders(changes) : \A i, j \in DOMAIN f : i < j => f[i][2].mmr >= f[j][2].mmr}

\* if previous_skill.skill_group != next_skill.skill_group
MmrChanged(change) == change[1].mmr # change[2].mmr
SkillGroupChanged(change) == change[1].skill_group # change[2].skill_group

GetSkillChangesBetweenRounds ==
    /\ pc = "get_skill_changes_between_rounds"
    /\ queries' = Append(queries, "skill_changes")
    /\ skill_change_rows' = SkillChangeRows(round_range)
    /\ \E skill_changes \in SortedByLaterMmr({SkillChange(row) : row \in SkillChangeRows(round_range)}) :
           skill_group_changes' = SelectSeq(skill_changes, SkillGroupChanged)
    /\ pc' = After("get_most_played_maps_between_rounds")
    /\ outcome' = Returned
    /\ UNCHANGED <<store, call, day, round_range, rounds_played, rating_extremes,
                   most_mvps, most_played_maps, digest>>

\* -------------------------------------- get_most_played_maps_between_rounds
\* rounds JOIN maps ON map_id WHERE round_id BETWEEN ? AND ? GROUP BY map_name
RoundsOnMap(map_name, range) ==
    {r \in RoundIds : /\ BetweenRounds(r, range)
                      /\ rounds[r].map_id \in DOMAIN maps
                      /\ maps[rounds[r].map_id] = map_name}

MapRows(range) ==
    {row \in {<<maps[m], Cardinality(RoundsOnMap(maps[m], range))>> : m \in DOMAIN maps} :
        row[2] > 0}

\* ORDER BY round_count DESC: equal counts come in any order
SortedByRoundCountAscending(rows) ==
    {f \in Orders(rows) : \A i, j \in DOMAIN f : i < j => f[i][2] <= f[j][2]}
SortedByRoundCount(rows) ==
    {f \in Orders(rows) : \A i, j \in DOMAIN f : i < j => f[i][2] >= f[j][2]}

GetMostPlayedMapsBetweenRounds ==
    /\ pc = "get_most_played_maps_between_rounds"
    /\ queries' = Append(queries, "most_played_maps")
    /\ \E items \in SortedByRoundCount(MapRows(round_range)) :
           most_played_maps' = items
    /\ pc' = After("assemble")
    /\ outcome' = Returned
    /\ UNCHANGED <<store, call, day, round_range, rounds_played, rating_extremes,
                   most_mvps, skill_change_rows, skill_group_changes, digest>>

\* ------------------------------------------- get_highlights: shape and return
IsoFormat(t) == <<"iso", t>>

ShapeSkillChange(change) ==
    [player_id |-> change[1].player_id,
     steam_name |-> change[1].steam_name,
     previous_skill |-> [mmr |-> change[1].mmr, skill_group |-> change[1].skill_group],
     next_skill |-> [mmr |-> change[2].mmr, skill_group |-> change[2].skill_group]]

Assemble ==
    /\ pc = "assemble"
    /\ digest' = [time_window |-> <<IsoFormat(day), IsoFormat(day + TicksPerDay)>>,
                  rounds_played |-> rounds_played,
                  lowest_rating |-> rating_extremes[1],
                  highest_rating |-> rating_extremes[2],
                  season_skill_group_changes |->
                      [i \in DOMAIN skill_group_changes |->
                          ShapeSkillChange(skill_group_changes[i])],
                  most_played_maps |-> most_played_maps,
                  most_mvps |-> most_mvps]
    /\ pc' = "done"
    /\ outcome' = "digest"
    /\ UNCHANGED <<store, call, day, queries, round_range, rounds_played, rating_extremes,
                   most_mvps, skill_change_rows, skill_group_changes, most_played_maps>>

\* ------------------------------------------------------------ initial states
\* rounds whose identifiers increase with creation order
RoundTables(n, map_ids, mvps) ==
    {t \in [1 .. n -> [created_at : Timestamps, map_id : map_ids, mvp : mvps]] :
        \A a, b \in 1 .. n : a < b => t[a].created_at <= t[b].created_at}

\* one round every tick from tick 1 on
SteadyRounds(n) ==
    [r \in 1 .. n |-> [created_at |-> r, map_id |-> 1, mvp |-> NULL]]

AllPlayers == [p \in PlayerIds |-> SteamName(p)]
AllMaps == [m \in MapIds |-> MapName(m)]
\* the tables with their highest identifier missing
PlayersButLast == [p \in PlayerIds \ {NumPlayers} |-> SteamName(p)]
MapsButLast == [m \in MapIds \ {NumMaps} |-> MapName(m)]

RECURSIVE RowSets(_, _)
\* the sets of at most k rows of universe with one row per (round_id, player_id)
RowSets(universe, k) ==
    IF k = 0 THEN {{}}
    ELSE LET smaller == RowSets(universe, k - 1)
         IN smaller \cup
            {S \cup {row} : <<S, row>> \in
                {sr \in smaller \X universe :
                    \A x \in sr[1] : x.round_id # sr[2].round_id
                                     \/ x.player_id # sr[2].player_id}}

RatingValues ==
    {<<1, 0, 2, 3>>, <<0, 2, 1, 1>>}
RatingRows(n) ==
    {[round_id |-> r, player_id |-> p, kill_rating |-> v[1], death_rating |-> v[2],
      damage_rating |-> v[3], kas_rating |-> v[4]] :
        r \in 1 .. n, p \in PlayerIds, v \in RatingValues}
\* every player has a row in every round
FullRatings(n) ==
    {[round_id |-> r, player_id |-> p, kill_rating |-> 1, death_rating |-> p - 1,
      damage_rating |-> r, kas_rating |-> 1] : r \in 1 .. n, p \in PlayerIds}

SkillValues ==
    {<<0, 0>>, <<2, 1>>, <<2, 0>>, <<3, 0>>}
SnapshotRows(n, values) ==
    {[player_id |-> p, round_id |-> r, skill_mean |-> v[1], skill_stdev |-> v[2]] :
        p \in PlayerIds, r \in 1 .. n, v \in values}
\* a season in which a snapshot of round r records the skill mean r
SeasonSnapshotRows(n) ==
    {[player_id |-> p, round_id |-> r, skill_mean |-> r, skill_stdev |-> 0] :
        p \in PlayerIds, r \in 1 .. n}
\* at most one snapshot per player in the first and in the last of n rounds
EndSnapshots(n, values) ==
    {{row \in SnapshotRows(n, values) :
          /\ row.round_id \in {1, n}
          /\ pick[row.player_id][row.round_id] = <<row.skill_mean, row.skill_stdev>>} :
        pick \in [PlayerIds -> [{1, n} -> values \cup {<<>>}]]}
\* player 1 climbs a group in round 2
SteadyHistory ==
    {[player_id |-> 1, round_id |-> 1, skill_mean |-> 1, skill_stdev |-> 0],
     [player_id |-> 1, round_id |-> 2, skill_mean |-> 3, skill_stdev |-> 0]}

CoefficientChoices ==
    {<<1, -1, 2, 3, 0>>, <<2, -3, 1, 0, 1>>}
DefaultCoefficients == <<1, -1, 1, 1, 0>>

RoundRanges(n) == {range \in (1 .. n) \X (1 .. n) : range[1] <= range[2]}

InitLocals ==
    /\ queries = <<>>
    /\ rounds_played = NULL
    /\ rating_extremes = <<None, None>>
    /\ most_mvps = None
    /\ skill_change_rows = {}
    /\ skill_group_changes = <<>>
    /\ most_played_maps = <<>>
    /\ digest = None
    /\ outcome = "running"

\* get_highlights(skill_db, day)
InitHighlights ==
    /\ call = "get_highlights"
    /\ pc = "get_round_range_for_day"
    /\ day \in Days
    /\ round_range = <<NULL, NULL>>
    /\ InitLocals

\* a direct call fn(skill_db, round_range)
InitQuery(fn, n) ==
    /\ call = fn
    /\ pc = fn
    /\ day = 0
    /\ round_range \in RoundRanges(n)
    /\ InitLocals

\* days with and without rounds, MVPs and rating components
Init ==
    /\ rounds \in RoundTables(NumRounds, {1}, {NULL, 1})
    /\ maps = AllMaps
    /\ players = AllPlayers
    /\ rating_components \in {{}, FullRatings(1), FullRatings(NumRounds)}
    /\ season_skill_history = SteadyHistory
    /\ coefficients = DefaultCoefficients
    /\ InitHighlights

Next ==
    \/ GetRoundRangeForDay
    \/ CheckRoundsPlayed
    \/ GetRatingExtremesBetweenRounds
    \/ GetPlayerWithMostMvpsBetweenRounds
    \/ GetSkillChangesBetweenRounds
    \/ GetMostPlayedMapsBetweenRounds
    \/ Assemble

Spec == Init /\ [][Next]_vars

\* days whose rounds are played on any of the maps, some of them unknown to maps
InitMapsDigest ==
    /\ rounds \in RoundTables(NumRounds, MapIds, {NULL})
    /\ maps \in {AllMaps, MapsButLast}
    /\ players = AllPlayers
    /\ rating_components = FullRatings(NumRounds)
    /\ season_skill_history = SteadyHistory
    /\ coefficients = DefaultCoefficients
    /\ InitHighlights

SpecMapsDigest == InitMapsDigest /\ [][Next]_vars

\* days over any skill history with snapshots in the first and last round
InitSkillDigest ==
    /\ rounds = SteadyRounds(NumRounds)
    /\ maps = AllMaps
    /\ players = AllPlayers
    /\ rating_components = FullRatings(NumRounds)
    /\ season_skill_history \in EndSnapshots(NumRounds, SkillValues)
    /\ coefficients = DefaultCoefficients
    /\ InitHighlights

SpecSkillDigest == InitSkillDigest /\ [][Next]_vars

\* get_rating_extremes_between_rounds(skill_db, round_range)
InitExtremes ==
    /\ rounds = SteadyRounds(NumRounds)
    /\ maps = AllMaps
    /\ players \in {AllPlayers, PlayersButLast}
    /\ rating_components \in RowSets(RatingRows(NumRounds), MaxRows)
    /\ season_skill_history = {}
    /\ coefficients \in CoefficientChoices
    /\ InitQuery("get_rating_extremes_between_rounds", NumRounds)

NextExtremes == GetRatingExtremesBetweenRounds

SpecExtremes == InitExtremes /\ [][NextExtremes]_vars

\* get_player_with_most_mvps_between_rounds(skill_db, round_range)
InitMvps ==
    /\ rounds \in {t \in RoundTables(NumRounds, {1}, {NULL} \cup PlayerIds) :
                      \A r \in 1 .. NumRounds : t[r].created_at = r}
    /\ maps = AllMaps
    /\ players = AllPlayers
    /\ rating_components = {}
    /\ season_skill_history = {}
    /\ coefficients = DefaultCoefficients
    /\ InitQuery("get_player_with_most_mvps_between_rounds", NumRounds)

NextMvps == GetPlayerWithMostMvpsBetweenRounds

SpecMvps == InitMvps /\ [][NextMvps]_vars

\* get_skill_changes_between_rounds(skill_db, round_range)
InitSkillChanges ==
    /\ rounds = SteadyRounds(NumSeasonRounds)
    /\ maps = AllMaps
    /\ players = AllPlayers
    /\ rating_components = {}
    /\ season_skill_history \in RowSets(SeasonSnapshotRows(NumSeasonRounds), MaxRows)
    /\ coefficients = DefaultCoefficients
    /\ InitQuery("get_skill_changes_between_rounds", NumSeasonRounds)

NextSkillChanges == GetSkillChangesBetweenRounds

SpecSkillChanges == InitSkillChanges /\ [][NextSkillChanges]_vars

\* get_most_played_maps_between_rounds(skill_db, round_range)
InitMaps ==
    /\ rounds \in {t \in RoundTables(NumRounds, MapIds, {NULL}) :
                      \A r \in 1 .. NumRounds : t[r].created_at = r}
    /\ maps \in [MapIds -> {MapName(m) : m \in MapIds}] \cup {MapsButLast}
    /\ players = AllPlayers
    /\ rating_components = {}
    /\ season_skill_history = {}
    /\ coefficients = DefaultCoefficients
    /\ InitQuery("get_most_played_maps_between_rounds", NumRounds)

NextMaps == GetMostPlayedMapsBetweenRounds

SpecMaps == InitMaps /\ [][NextMaps]_vars

\* ================================================================== claims
InHighlights == call = "get_highlights"
Finished == pc = "done"

\* C1: when the round-window query counts zero rounds, get_highlights raises
\* StopIteration, returns no digest, and the round-window query is the only
\* store query it has issued.
C1_NoActivityStopsQueries ==
    (InHighlights /\ pc # "get_round_range_for_day" /\ rounds_played = 0) =>
        /\ queries = <<"round_window">>
        /\ digest = None
        /\ pc \in {"check_rounds_played", "done"}
        /\ Finished => outcome = "StopIteration"

C1_Witness ==
    /\ InHighlights
    /\ Finished
    /\ rounds_played = 0
    /\ outcome = "StopIteration"
    /\ queries = <<"round_window">>

\* C2: a round created exactly at the boundary between day D and day D+1 is
\* counted in the window of D+1 and not in the window of D (half-open rule).
C2_BoundaryRoundInOneWindow ==
    (InHighlights /\ pc # "get_round_range_for_day") =>
        \A r \in RoundIds :
            rounds[r].created_at = day + TicksPerDay =>
                /\ r \in RoundWindowRows(day + TicksPerDay)
                /\ r \notin RoundWindowRows(day)
                /\ rounds_played = Cardinality({x \in RoundIds :
                       day <= rounds[x].created_at /\ rounds[x].created_at < day + TicksPerDay})

DigestComplete ==
    /\ outcome = "digest"
    /\ digest # None
    /\ digest.time_window = <<IsoFormat(day), IsoFormat(day + TicksPerDay)>>
    /\ digest.rounds_played = rounds_played
    /\ digest.lowest_rating # None
    /\ digest.highest_rating # None
    /\ Len(digest.season_skill_group_changes) = Len(skill_group_changes)
    /\ digest.most_played_maps = most_played_maps

\* C3: on a day with at least one round get_highlights returns a complete
\* digest, also when no player has rating-component rows in the window.
C3_DigestForEveryActiveDay ==
    (InHighlights /\ Finished /\ rounds_played > 0) => DigestComplete

WindowHasMvp == \E r \in RoundWindowRows(day) : rounds[r].mvp # NULL

\* C9: on a day with at least one round and no MVP recorded in its window the
\* digest is produced with most_mvps None and every other field populated.
C9_NoMvpDigestStillProduced ==
    (InHighlights /\ Finished /\ rounds_played > 0 /\ ~WindowHasMvp) =>
        /\ DigestComplete
        /\ digest.most_mvps = None

\* SUM of the counts of an ordered (map_name, round_count) list
RECURSIVE SumCounts(_)
SumCounts(items) ==
    IF items = <<>> THEN 0 ELSE Head(items)[2] + SumCounts(Tail(items))

IdsFollowCreation ==
    \A a, b \in RoundIds : a < b => rounds[a].created_at <= rounds[b].created_at
EveryRoundHasMap == \A r \in RoundIds : rounds[r].map_id \in DOMAIN maps

\* C10: where round identifiers increase with creation time, the rounds with
\* round_id in the resolved range are exactly the rounds the timestamp window
\* counted; where moreover every round references an existing map, the counts
\* of the digest's most_played_maps add up to its rounds_played.
C10_RangeMatchesWindow ==
    (InHighlights /\ pc # "get_round_range_for_day" /\ rounds_played > 0
        /\ IdsFollowCreation) =>
        /\ {r \in RoundIds : round_range[1] <= r /\ r <= round_range[2]}
               = {r \in RoundIds : /\ day <= rounds[r].created_at
                                   /\ rounds[r].created_at <= day + TicksPerDay}
        /\ Cardinality({r \in RoundIds : round_range[1] <= r /\ r <= round_range[2]})
               = rounds_played
        /\ (outcome = "digest" /\ EveryRoundHasMap) =>
               SumCounts(digest.most_played_maps) = digest.rounds_played

C10_Witness ==
    /\ InHighlights
    /\ outcome = "digest"
    /\ EveryRoundHasMap
    /\ Len(digest.most_played_maps) = 2
    /\ digest.rounds_played = 2
    /\ Cardinality(RoundIds) > 2

\* C6: every pair get_skill_changes_between_rounds returns, and every entry of
\* the digest's season_skill_group_changes, has different previous and next
\* skill groups; a player whose group is the same on both sides is not
\* reported even when the skill mean or standard deviation differs.
C6_OnlyGroupChangesReported ==
    /\ \A i \in DOMAIN skill_group_changes :
           skill_group_changes[i][1].skill_group # skill_group_changes[i][2].skill_group
    /\ outcome = "digest" =>
           /\ \A i \in DOMAIN digest.season_skill_group_changes :
                  digest.season_skill_group_changes[i].previous_skill.skill_group
                      # digest.season_skill_group_changes[i].next_skill.skill_group
           /\ \A row \in skill_change_rows :
                  SkillGroup(Mmr(row.earlier_skill_mean, row.earlier_skill_stdev))
                        = SkillGroup(Mmr(row.later_skill_mean, row.later_skill_stdev))
                    => \A i \in DOMAIN digest.season_skill_group_changes :
                           digest.season_skill_group_changes[i].player_id # row.player_id

C6_Witness ==
    /\ outcome = "digest"
    /\ Len(digest.season_skill_group_changes) = 1
    /\ \E row \in skill_change_rows :
           /\ row.earlier_skill_mean # row.later_skill_mean
           /\ row.earlier_skill_stdev # row.later_skill_stdev
           /\ Mmr(row.earlier_skill_mean, row.earlier_skill_stdev)
                  # Mmr(row.later_skill_mean, row.later_skill_stdev)
           /\ digest.season_skill_group_changes[1].player_id # row.player_id

\* the rating rows of player p with round_id in [first, last]
RowsInRange(p) ==
    {rc \in rating_components : /\ rc.player_id = p
                                /\ round_range[1] <= rc.round_id
                                /\ rc.round_id <= round_range[2]}
ActivePlayers == {p \in PlayerIds : RowsInRange(p) # {}}

\* c1*avg_kill + c2*avg_death + c3*avg_damage + c4*avg_kas + c5, times Scale
HandRating(p) ==
    LET rows == RowsInRange(p)
        weighted == [rc \in rows |-> coefficients[1] * rc.kill_rating
                                       + coefficients[2] * rc.death_rating
                                       + coefficients[3] * rc.damage_rating
                                       + coefficients[4] * rc.kas_rating]
    IN (Scale * SumOver(rows, weighted)) \div Cardinality(rows) + Scale * coefficients[5]

\* C4: when some player has rating rows in the range and every such player is
\* in players, the lowest record carries the minimum and the highest record the
\* maximum of the players' impact ratings, lowest <= highest, and a single
\* active player is both records.
C4_ExtremesAreMinAndMax ==
    (call = "get_rating_extremes_between_rounds" /\ Finished
        /\ ActivePlayers # {} /\ ActivePlayers \subseteq DOMAIN players) =>
        /\ outcome = "returned"
        /\ rating_extremes[1].impact_rating = Min({HandRating(p) : p \in ActivePlayers})
        /\ rating_extremes[2].impact_rating = Max({HandRating(p) : p \in ActivePlayers})
        /\ rating_extremes[1].impact_rating = HandRating(rating_extremes[1].player_id)
        /\ rating_extremes[2].impact_rating = HandRating(rating_extremes[2].player_id)
        /\ rating_extremes[1].impact_rating <= rating_extremes[2].impact_rating
        /\ Cardinality(ActivePlayers) = 1 =>
               /\ rating_extremes[1].player_id = rating_extremes[2].player_id
               /\ rating_extremes[1].player_id \in ActivePlayers

C4_Witness ==
    /\ call = "get_rating_extremes_between_rounds"
    /\ Finished
    /\ outcome = "returned"
    /\ Cardinality(ActivePlayers) = 2
    /\ \E p \in ActivePlayers : Cardinality(RowsInRange(p)) = 2
    /\ rating_extremes[1].impact_rating < rating_extremes[2].impact_rating
    /\ rating_extremes[1].impact_rating % Scale # 0

\* the rounds of the range whose MVP is player p
MvpRoundsInRange(p) ==
    {r \in RoundIds : /\ round_range[1] <= r
                      /\ r <= round_range[2]
                      /\ rounds[r].mvp = p}

\* C8: when some round of the range has an MVP, the returned record's mvps is
\* the greatest number of rounds of the range any one player is the MVP of,
\* and it is the returned player's own count.
C8_MostMvpsIsMaximum ==
    (call = "get_player_with_most_mvps_between_rounds" /\ Finished
        /\ \E p \in PlayerIds : MvpRoundsInRange(p) # {}) =>
        /\ outcome = "returned"
        /\ most_mvps # None
        /\ most_mvps.mvps = Max({Cardinality(MvpRoundsInRange(p)) : p \in PlayerIds})
        /\ most_mvps.mvps = Cardinality(MvpRoundsInRange(most_mvps.player_id))

C8_Witness ==
    /\ call = "get_player_with_most_mvps_between_rounds"
    /\ Finished
    /\ most_mvps # None
    /\ most_mvps.mvps = 2
    /\ \E p \in PlayerIds : Cardinality(MvpRoundsInRange(p)) = 1

\* the one snapshot of player p taken in round r
SnapshotAt(p, r) ==
    CHOOSE ssh \in season_skill_history : ssh.player_id = p /\ ssh.round_id = r
SnapshotsOf(p) == {ssh.round_id : ssh \in {x \in season_skill_history : x.player_id = p}}
Before(p) == {r \in SnapshotsOf(p) : r <= round_range[1]}
AfterRange(p) == {r \in SnapshotsOf(p) : r >= round_range[2]}

\* C5: per player, the earlier snapshot is the one of the greatest round_id <=
\* first and the later snapshot the one of the smallest round_id >= last,
\* whatever snapshots lie inside the range; a player with no snapshot on one
\* side has no pair, and no player has more than one.
C5_BracketingSnapshots ==
    (call = "get_skill_changes_between_rounds" /\ Finished) =>
        /\ \A p \in PlayerIds :
               IF Before(p) = {} \/ AfterRange(p) = {}
               THEN \A row \in skill_change_rows : row.player_id # p
               ELSE LET e == SnapshotAt(p, Max(Before(p)))
                        l == SnapshotAt(p, Min(AfterRange(p)))
                    IN {row \in skill_change_rows : row.player_id = p}
                         = {[player_id |-> p,
                             steam_name |-> players[p],
                             earlier_skill_mean |-> e.skill_mean,
                             earlier_skill_stdev |-> e.skill_stdev,
                             later_skill_mean |-> l.skill_mean,
                             later_skill_stdev |-> l.skill_stdev]}
        /\ \A i, j \in DOMAIN skill_group_changes :
               i # j => skill_group_changes[i][1].player_id # skill_group_changes[j][1].player_id
        /\ \A i \in DOMAIN skill_group_changes :
               \E row \in skill_change_rows :
                   /\ row.player_id = skill_group_changes[i][1].player_id
                   /\ row.player_id = skill_group_changes[i][2].player_id
                   /\ row.earlier_skill_mean = skill_group_changes[i][1].skill_mean
                   /\ row.earlier_skill_stdev = skill_group_changes[i][1].skill_stdev
                   /\ row.later_skill_mean = skill_group_changes[i][2].skill_mean
                   /\ row.later_skill_stdev = skill_group_changes[i][2].skill_stdev

\* snapshots in rounds 1, 3, 5 around the range (2, 4)
C5_Witness ==
    /\ call = "get_skill_changes_between_rounds"
    /\ Finished
    /\ round_range = <<2, 4>>
    /\ SnapshotsOf(1) = {1, 3, 5}
    /\ SnapshotAt(1, 3).skill_mean # SnapshotAt(1, 1).skill_mean
    /\ SnapshotAt(1, 5).skill_mean # SnapshotAt(1, 3).skill_mean
    /\ SnapshotsOf(2) = {}
    /\ Len(skill_group_changes) = 1
    /\ skill_group_changes[1][1].player_id = 1
    /\ skill_group_changes[1][1].skill_mean = SnapshotAt(1, 1).skill_mean
    /\ skill_group_changes[1][2].skill_mean = SnapshotAt(1, 5).skill_mean

RoundsNamed(map_name) ==
    {r \in RoundIds : /\ round_range[1] <= r
                      /\ r <= round_range[2]
                      /\ rounds[r].map_id \in DOMAIN maps
                      /\ maps[rounds[r].map_id] = map_name}
CountsAreRoundsInRange ==
    /\ \A i \in DOMAIN most_played_maps :
           /\ most_played_maps[i][2] = Cardinality(RoundsNamed(most_played_maps[i][1]))
           /\ most_played_maps[i][2] > 0
    /\ \A i, j \in DOMAIN most_played_maps :
           i # j => most_played_maps[i][1] # most_played_maps[j][1]
    /\ \A m \in DOMAIN maps :
           RoundsNamed(maps[m]) # {} =>
               \E i \in DOMAIN most_played_maps : most_played_maps[i][1] = maps[m]

\* C7 as stated: the output is sorted strictly descending by count and each
\* count is the number of rounds of the range on that map.
C7_StrictlyDescending ==
    (call = "get_most_played_maps_between_rounds" /\ Finished) =>
        /\ CountsAreRoundsInRange
        /\ \A i, j \in DOMAIN most_played_maps :
               i < j => most_played_maps[i][2] > most_played_maps[j][2]

\* C7 amended: the output is sorted descending by count, maps of equal count
\* in either order, and each count is the number of rounds of the range on
\* that map; maps without a round in the range do not appear.
C7_DescendingCounts ==
    (call = "get_most_played_maps_between_rounds" /\ Finished) =>
        /\ CountsAreRoundsInRange
        /\ \A i, j \in DOMAIN most_played_maps :
               i < j => most_played_maps[i][2] >= most_played_maps[j][2]

C7_Witness ==
    /\ call = "get_most_played_maps_between_rounds"
    /\ Finished
    /\ Len(most_played_maps) = 2
    /\ most_played_maps[1][2] = 2
    /\ most_played_maps[2][2] = 1
    /\ Cardinality(DOMAIN maps) = 2

====
